---------------------------- MODULE Spec2Model ----------------------------
(***************************************************************************)
(* A model of engine2d.cpp: the entity/component registry, the input       *)
(* snapshot, the control, physics and render systems, and the              *)
(* fixed-timestep loop of main.                                            *)
(*                                                                         *)
(* C++ `float` values are modelled bit-exactly as IEEE-754 binary32        *)
(* numbers: a record [m, e] stands for m * 2^e, with |m| < 2^24, and       *)
(* either 2^23 <= |m| (normal) or e = -149 (subnormal); zero is [0, 0].    *)
(* -0.0 is identified with +0.0 (the program never tells them apart), and  *)
(* infinities / NaN are outside the value sets the model draws from.       *)
(***************************************************************************)
EXTENDS Integers, Sequences, FiniteSets, TLC

----------------------------------------------------------------------------
(* binary32 arithmetic *)

Pow2Tab ==
    << 1, 2, 4, 8, 16, 32, 64, 128, 256, 512, 1024, 2048, 4096, 8192, 16384,
       32768, 65536, 131072, 262144, 524288, 1048576, 2097152, 4194304,
       8388608, 16777216, 33554432, 67108864, 134217728, 268435456,
       536870912, 1073741824 >>

Pow2(n) == Pow2Tab[n + 1]

Abs(x) == IF x < 0 THEN -x ELSE x

Sgn(x) == IF x < 0 THEN -1 ELSE 1

RECURSIVE BitLen(_)
BitLen(n) == IF n = 0 THEN 0 ELSE 1 + BitLen(n \div 2)

FZero == [m |-> 0, e |-> 0]

\* Round sgn * (M [+ a nonzero fraction when sticky]) * 2^E to the nearest
\* binary32 value, ties to even. 0 <= M < 2^30.
FRoundNearest(sgn, M, sticky, E) ==
    IF M = 0 THEN FZero
    ELSE
      LET e0 == E + BitLen(M) - 24
          e  == IF e0 < -149 THEN -149 ELSE e0
          sh == e - E
      IN  IF sh <= 0 THEN [m |-> sgn * M * Pow2(-sh), e |-> e]
          ELSE IF sh > 30 THEN FZero
          ELSE
            LET q    == M \div Pow2(sh)
                r    == M % Pow2(sh)
                half == Pow2(sh - 1)
                up   == r > half \/ (r = half /\ (sticky \/ q % 2 = 1))
                q2   == IF up THEN q + 1 ELSE q
            IN  IF q2 = 0 THEN FZero
                ELSE IF q2 = 16777216 THEN [m |-> sgn * 8388608, e |-> e + 1]
                ELSE [m |-> sgn * q2, e |-> e]

\* int -> float conversion
FromInt(n) == FRoundNearest(Sgn(n), Abs(n), FALSE, 0)

FNeg(a) == [m |-> -a.m, e |-> a.e]

\* a + b in binary32 (three guard bits and a sticky bit, as the hardware does)
FAdd(a, b) ==
    IF a.m = 0 THEN b
    ELSE IF b.m = 0 THEN a
    ELSE
      LET hi == IF a.e >= b.e THEN a ELSE b
          lo == IF a.e >= b.e THEN b ELSE a
          d  == hi.e - lo.e
      IN  IF d > 26 THEN hi
          ELSE
            LET H      == Abs(hi.m) * 8
                L8     == Abs(lo.m) * 8
                Lq     == L8 \div Pow2(d)
                sticky == L8 % Pow2(d) # 0
                same   == Sgn(hi.m) = Sgn(lo.m)
            IN  IF same
                THEN FRoundNearest(Sgn(hi.m), H + Lq, sticky, hi.e - 3)
                ELSE IF sticky
                THEN FRoundNearest(Sgn(hi.m), H - Lq - 1, TRUE, hi.e - 3)
                ELSE FRoundNearest(Sgn(hi.m) * Sgn(H - Lq), Abs(H - Lq),
                                   FALSE, hi.e - 3)

FSub(a, b) == FAdd(a, FNeg(b))

\* a * b in binary32: the 48-bit product of the 24-bit significands is formed
\* from 12-bit halves, then rounded once.
FMul(a, b) ==
    IF a.m = 0 \/ b.m = 0 THEN FZero
    ELSE
      LET sa  == 24 - BitLen(Abs(a.m))
          sb  == 24 - BitLen(Abs(b.m))
          na  == Abs(a.m) * Pow2(sa)
          nb  == Abs(b.m) * Pow2(sb)
          a1  == na \div 4096
          a0  == na % 4096
          b1  == nb \div 4096
          b0  == nb % 4096
          mid == a1 * b0 + a0 * b1
          low == a0 * b0 + (mid % 4096) * 4096
          L   == low % 16777216
          H   == a1 * b1 + mid \div 4096 + low \div 16777216
      IN  FRoundNearest(Sgn(a.m) * Sgn(b.m), H * 4 + L \div 4194304,
                        L % 4194304 # 0, (a.e - sa) + (b.e - sb) + 22)

FLt(a, b) ==
    IF a.m = 0 THEN b.m > 0
    ELSE IF b.m = 0 THEN a.m < 0
    ELSE IF Sgn(a.m) # Sgn(b.m) THEN a.m < 0
    ELSE IF a.m > 0
         THEN a.e < b.e \/ (a.e = b.e /\ a.m < b.m)
         ELSE a.e > b.e \/ (a.e = b.e /\ a.m < b.m)

FGe(a, b) == ~FLt(a, b)

\* int(f): conversion of a float to int truncates toward zero
FToInt(a) ==
    IF a.e >= 0 THEN a.m * Pow2(a.e)
    ELSE IF -a.e > 30 THEN 0
    ELSE Sgn(a.m) * (Abs(a.m) \div Pow2(-a.e))

\* std::round(float): nearest integer, halfway cases away from zero
FStdRound(a) ==
    IF a.e >= 0 THEN a
    ELSE IF -a.e > 24 THEN FZero
    ELSE LET q == Abs(a.m) \div Pow2(-a.e)
             r == Abs(a.m) % Pow2(-a.e)
         IN  FromInt(Sgn(a.m) * (IF r >= Pow2(-a.e - 1) THEN q + 1 ELSE q))

----------------------------------------------------------------------------
(* components and the registry *)

Vec2(x, y) == [x |-> x, y |-> y]

F0 == FZero

F1 == FromInt(1)

\* struct Transform, default member initialisers
DefaultTransform == [pos |-> Vec2(F0, F0), rot |-> F0, scale |-> Vec2(F1, F1)]

\* struct Sprite, default member initialisers (tex 0 is nullptr)
DefaultSprite == [tex |-> 0, w |-> 0, h |-> 0]

\* struct Rigidbody, default member initialisers
DefaultRigidbody == [vel |-> Vec2(F0, F0), mass |-> F1]

EmptyMap == << >>

\* std::unordered_map::count(k) != 0
Has(map, k) == k \in DOMAIN map

\* std::unordered_map::operator[]: a missing key is inserted with a
\* value-initialised entry before the reference is handed out
Index(map, k, dflt) == IF k \in DOMAIN map THEN map ELSE map @@ (k :> dflt)

\* map[k] = v
Put(map, k, v) == [x \in DOMAIN map \cup {k} |-> IF x = k THEN v ELSE map[x]]

\* EntityManager as constructed
NewEntityManager ==
    [nextId |-> 1, entities |-> << >>, transforms |-> EmptyMap,
     sprites |-> EmptyMap, bodies |-> EmptyMap]

\* create with nextId read but not incremented
createReusingId(m) ==
    [em  |-> [m EXCEPT !.entities = Append(m.entities, m.nextId),
                        !.transforms = Put(m.transforms, m.nextId,
                                           DefaultTransform)],
     ret |-> m.nextId]

\* EntityManager::create: the registry after the call, and the id returned
\* (nextId++ on an int; the model's bounds keep it far from INT_MAX)
create(m) ==
    [em  |-> [m EXCEPT !.nextId = m.nextId + 1,
                        !.entities = Append(m.entities, m.nextId),
                        !.transforms = Put(m.transforms, m.nextId,
                                           DefaultTransform)],
     ret |-> m.nextId]

\* destroyAll without entities.clear()
destroyAllKeepingEntities(m) ==
    [m EXCEPT !.transforms = EmptyMap, !.sprites = EmptyMap,
              !.bodies = EmptyMap, !.nextId = 1]

\* destroyAll without nextId = 1
destroyAllKeepingNextId(m) ==
    [m EXCEPT !.entities = << >>, !.transforms = EmptyMap,
              !.sprites = EmptyMap, !.bodies = EmptyMap]

\* EntityManager::destroyAll
destroyAll(m) ==
    [m EXCEPT !.entities = << >>, !.transforms = EmptyMap,
              !.sprites = EmptyMap, !.bodies = EmptyMap, !.nextId = 1]

----------------------------------------------------------------------------
(* input *)

\* InputState as constructed
NewInputState ==
    [quit |-> FALSE, axisX |-> F0, axisY |-> F0,
     left |-> FALSE, right |-> FALSE, up |-> FALSE, down |-> FALSE]

\* the events SDL_PollEvent can deliver, as far as processInput tells them
\* apart: SDL_QUIT, key presses and releases of a, d, w, s, Escape and of
\* some other key, and any other event type
KeySyms == {"a", "d", "w", "s", "ESC", "other"}

AllEvents ==
    {[type |-> "QUIT", sym |-> "none"], [type |-> "OTHER", sym |-> "none"]}
    \cup [type : {"KEYDOWN", "KEYUP"}, sym : KeySyms]

\* one pass of the body of the while (SDL_PollEvent(&e)) loop
handleEvent(in, ev) ==
    LET q  == IF ev.type = "QUIT" THEN [in EXCEPT !.quit = TRUE] ELSE in
        dn == ev.type = "KEYDOWN"
    IN  IF ev.type \notin {"KEYDOWN", "KEYUP"} THEN q
        ELSE CASE ev.sym = "a" -> [q EXCEPT !.left = dn]
               [] ev.sym = "d" -> [q EXCEPT !.right = dn]
               [] ev.sym = "w" -> [q EXCEPT !.up = dn]
               [] ev.sym = "s" -> [q EXCEPT !.down = dn]
               [] ev.sym = "ESC" -> IF dn THEN [q EXCEPT !.quit = TRUE] ELSE q
               [] OTHER -> q

RECURSIVE pollEvents(_, _)
pollEvents(in, evs) ==
    IF evs = << >> THEN in
    ELSE pollEvents(handleEvent(in, Head(evs)), Tail(evs))

\* the axes with the positive direction assigned instead of added
axesAssigning(in) ==
    LET x1 == IF in.left THEN FSub(in.axisX, F1) ELSE in.axisX
        x2 == IF in.right THEN F1 ELSE x1
        y1 == IF in.up THEN FSub(in.axisY, F1) ELSE in.axisY
        y2 == IF in.down THEN F1 ELSE y1
    IN  [in EXCEPT !.axisX = x2, !.axisY = y2]

\* the axes from the flags, lines 111-114
axes(in) ==
    LET x1 == IF in.left THEN FSub(in.axisX, F1) ELSE in.axisX
        x2 == IF in.right THEN FAdd(x1, F1) ELSE x1
        y1 == IF in.up THEN FSub(in.axisY, F1) ELSE in.axisY
        y2 == IF in.down THEN FAdd(y1, F1) ELSE y1
    IN  [in EXCEPT !.axisX = x2, !.axisY = y2]

\* the axes cleared and the flags left as the last call set them
resetFlagsAxesOnly(in) == [in EXCEPT !.axisX = F0, !.axisY = F0]

\* lines 96-97: the axes and the four flags are cleared, quit is not
resetFlags(in) ==
    [in EXCEPT !.axisX = F0, !.axisY = F0, !.left = FALSE, !.right = FALSE,
               !.up = FALSE, !.down = FALSE]

\* processInput(in), evs being the events pending in SDL's queue
processInput(in, evs) == axes(pollEvents(resetFlags(in), evs))

\* the direction keys, and the keys that are down once event ev has been
\* delivered, h being those down before it
DirKeys == {"a", "d", "w", "s"}

heldAfter(h, ev) ==
    IF ev.type = "KEYDOWN" /\ ev.sym \in DirKeys THEN h \cup {ev.sym}
    ELSE IF ev.type = "KEYUP" /\ ev.sym \in DirKeys THEN h \ {ev.sym}
    ELSE h

RECURSIVE heldAfterAll(_, _)
heldAfterAll(h, evs) ==
    IF evs = << >> THEN h
    ELSE heldAfterAll(heldAfter(h, Head(evs)), Tail(evs))

----------------------------------------------------------------------------
(* systems *)

\* a factor above one, 1.02f, in the place of the damping factor
DampingGrowing == [m |-> 8556380, e |-> -23]

\* the damping factor 0.98f
Damping == [m |-> 16441672, e |-> -24]

\* physicsEntity with the damping applied before the position is advanced
physicsEntityDampFirst(m, e, dt) ==
    IF ~(e \in DOMAIN m.bodies) \/ ~(e \in DOMAIN m.transforms) THEN m
    ELSE
      LET rb == m.bodies[e]
          t  == m.transforms[e]
          vx == FMul(rb.vel.x, Damping)
          vy == FMul(rb.vel.y, Damping)
          px == FAdd(t.pos.x, FMul(vx, dt))
          py == FAdd(t.pos.y, FMul(vy, dt))
      IN  [m EXCEPT !.transforms = [m.transforms EXCEPT ![e].pos = Vec2(px, py)],
                    !.bodies = [m.bodies EXCEPT ![e].vel = Vec2(vx, vy)]]

\* the body of the for loop of physicsSystem for entity e
physicsEntity(m, e, dt) ==
    IF ~Has(m.bodies, e) \/ ~Has(m.transforms, e) THEN m
    ELSE
      LET bodies == Index(m.bodies, e, DefaultRigidbody)
          trs    == Index(m.transforms, e, DefaultTransform)
          rb     == bodies[e]
          t      == trs[e]
          px     == FAdd(t.pos.x, FMul(rb.vel.x, dt))
          py     == FAdd(t.pos.y, FMul(rb.vel.y, dt))
          vx     == FMul(rb.vel.x, Damping)
          vy     == FMul(rb.vel.y, Damping)
      IN  [m EXCEPT !.transforms = [trs EXCEPT ![e].pos = Vec2(px, py)],
                    !.bodies = [bodies EXCEPT ![e].vel = Vec2(vx, vy)]]

RECURSIVE physicsFrom(_, _, _)
physicsFrom(m, k, dt) ==
    IF k > Len(m.entities) THEN m
    ELSE physicsFrom(physicsEntity(m, m.entities[k], dt), k + 1, dt)

physicsSystem(m, dt) == physicsFrom(m, 1, dt)

\* the control system moving the entity itself instead of accelerating it
playerControlSystemMoving(player, m, in, speed) ==
    IF ~(player \in DOMAIN m.bodies) \/ ~(player \in DOMAIN m.transforms) THEN m
    ELSE
      LET t  == m.transforms[player]
          px == FAdd(t.pos.x, FMul(in.axisX, speed))
          py == FAdd(t.pos.y, FMul(in.axisY, speed))
      IN  [m EXCEPT !.transforms = [m.transforms EXCEPT ![player].pos = Vec2(px, py)]]

\* the control system setting the velocity instead of adding to it
playerControlSystemOverwriting(player, m, in, speed) ==
    IF ~(player \in DOMAIN m.bodies) THEN m
    ELSE [m EXCEPT !.bodies[player].vel =
                       Vec2(FMul(in.axisX, speed), FMul(in.axisY, speed))]

\* playerControlSystem(player, em, in, speed)
playerControlSystem(player, m, in, speed) ==
    IF ~Has(m.bodies, player) THEN m
    ELSE
      LET bodies == Index(m.bodies, player, DefaultRigidbody)
          rb     == bodies[player]
          vx     == FAdd(rb.vel.x, FMul(in.axisX, speed))
          vy     == FAdd(rb.vel.y, FMul(in.axisY, speed))
      IN  [m EXCEPT !.bodies = [bodies EXCEPT ![player].vel = Vec2(vx, vy)]]

\* the destination rectangle, lines 147-151; dst.w / 2 divides two ints
\* (truncating toward zero)
IntDiv2(n) == Sgn(n) * (Abs(n) \div 2)

destRect(sp, tr) ==
    LET w == FToInt(FMul(FromInt(sp.w), tr.scale.x))
        h == FToInt(FMul(FromInt(sp.h), tr.scale.y))
    IN  [x |-> FToInt(FStdRound(FSub(tr.pos.x, FromInt(IntDiv2(w))))),
         y |-> FToInt(FStdRound(FSub(tr.pos.y, FromInt(IntDiv2(h))))),
         w |-> w, h |-> h]

\* renderEntity without the test of the texture handle
renderEntityNullDrawn(st, e) ==
    IF ~Has(st.em.sprites, e) \/ ~Has(st.em.transforms, e) THEN st
    ELSE
      LET sp == st.em.sprites[e]
          tr == st.em.transforms[e]
      IN  [em    |-> st.em,
           calls |-> Append(st.calls,
                            [call |-> "copy", e |-> e, tex |-> sp.tex,
                             dst |-> destRect(sp, tr), rot |-> tr.rot])]

\* renderEntity without the presence test of the sprite
renderEntityUnguarded(st, e) ==
    IF ~Has(st.em.transforms, e) THEN st
    ELSE
      LET sprites == Index(st.em.sprites, e, DefaultSprite)
          m2      == [st.em EXCEPT !.sprites = sprites]
          sp      == sprites[e]
          tr      == st.em.transforms[e]
      IN  IF sp.tex = 0 THEN [st EXCEPT !.em = m2]
          ELSE [em    |-> m2,
                calls |-> Append(st.calls,
                                 [call |-> "copy", e |-> e, tex |-> sp.tex,
                                  dst |-> destRect(sp, tr), rot |-> tr.rot])]

\* the body of the for loop of renderSystem for entity e: st is the registry
\* together with the calls made on the renderer so far
renderEntity(st, e) ==
    IF ~Has(st.em.sprites, e) \/ ~Has(st.em.transforms, e) THEN st
    ELSE
      LET sprites == Index(st.em.sprites, e, DefaultSprite)
          trs     == Index(st.em.transforms, e, DefaultTransform)
          m2      == [st.em EXCEPT !.sprites = sprites, !.transforms = trs]
          sp      == sprites[e]
          tr      == trs[e]
      IN  IF sp.tex = 0 THEN [st EXCEPT !.em = m2]
          ELSE [em    |-> m2,
                calls |-> Append(st.calls,
                                 [call |-> "copy", e |-> e, tex |-> sp.tex,
                                  dst |-> destRect(sp, tr), rot |-> tr.rot])]

\* the live-entity list walked from its end
RECURSIVE renderFromEnd(_, _)
renderFromEnd(st, k) ==
    IF k > Len(st.em.entities) THEN st
    ELSE renderEntity(renderFromEnd(st, k + 1), st.em.entities[k])

\* the for loop of renderSystem from the k-th live entity on
RECURSIVE renderFrom(_, _)
renderFrom(st, k) ==
    IF k > Len(st.em.entities) THEN st
    ELSE renderFrom(renderEntity(st, st.em.entities[k]), k + 1)

\* renderSystem(renderer, em): the registry after the call and the calls it
\* made on the renderer, in order
renderSystem(m) ==
    LET st == renderFrom([em |-> m, calls |-> << [call |-> "clear"] >>], 1)
    IN  [st EXCEPT !.calls = Append(st.calls, [call |-> "present"])]

----------------------------------------------------------------------------
(* resources *)

\* texture handles: 0 is nullptr, TexLoaded the texture made from player.bmp,
\* TexFallback the 64x64 placeholder main builds when loading fails
TexLoaded == 1

TexFallback == 2

\* the paths loadTexture is asked for: the one main asks for, and two more
Paths == {"player.bmp", "enemy.bmp", "tile.bmp"}

\* ResourceManager::loadTexture(path): ok tells whether SDL_LoadBMP and
\* SDL_CreateTextureFromSurface both succeed for a path not yet cached
loadTexture(cache, path, ok) ==
    IF Has(cache, path) THEN [textures |-> cache, ret |-> cache[path]]
    ELSE IF ~ok THEN [textures |-> cache, ret |-> 0]
    ELSE [textures |-> Put(cache, path, TexLoaded), ret |-> TexLoaded]

\* the calls of SDL_LoadBMP after loadTexture(path) on cache: line 65 is
\* reached when line 64 does not return
attemptsAfter(att, cache, path) ==
    IF Has(cache, path) THEN att ELSE [att EXCEPT ![path] = @ + 1]

\* the first results after loadTexture(path) returned ret
firstRetAfter(first, path, ret) ==
    IF Has(first, path) THEN first ELSE Put(first, path, ret)

----------------------------------------------------------------------------
(* main *)

WINDOW_W == 800

WINDOW_H == 600

NumStatics == 5

SpriteSize == 64

\* TARGET_DT = 1.0f / 60.0f = 0x1.111112p-6
TARGET_DT == [m |-> 8947849, e |-> -29]

\* the speed argument of playerControlSystem: 200.0f * TARGET_DT
PlayerSpeed == FMul(FromInt(200), TARGET_DT)

\* 0.8f, the scale of the static objects
StaticScale == [m |-> 13421773, e |-> -24]

(* bounds of the model *)

\* outer iterations of the main loop that are explored
MaxFrames == 2

\* events pending in SDL's queue at one poll
MaxEvents == 1

\* the events main's polls are given
MainEvents ==
    {[type |-> "QUIT", sym |-> "none"], [type |-> "KEYDOWN", sym |-> "d"],
     [type |-> "KEYDOWN", sym |-> "w"]}

\* (float)elapsed as measured by one outer iteration: half a step, two
\* steps (0x1.111112p-5), and the float just below five steps
\* (0x1.555556p-4)
ElapsedValues ==
    {[m |-> 8947849, e |-> -30], [m |-> 8947849, e |-> -28],
     [m |-> 11184811, e |-> -27]}

RECURSIVE SeqsUpTo(_, _)
SeqsUpTo(S, n) ==
    IF n = 0 THEN {<< >>}
    ELSE LET shorter == SeqsUpTo(S, n - 1)
         IN  shorter \cup {Append(q, x) : q \in shorter, x \in S}

VARIABLES
    em,           \* the EntityManager
    textures,     \* ResourceManager::textures
    input,        \* the InputState of main
    accumulator,  \* main's accumulator
    player,       \* main's player (0 before it is created)
    tex,          \* main's tex
    i,            \* the counter of the loop creating the static objects
    pc,           \* where main is: the statement it executes next
    frames,       \* outer iterations begun
    issued,       \* the ids create returned since construction or the last destroyAll
    calls,        \* the calls the step executed last made on the renderer
    frameLog,     \* the steps of the current outer iteration, in order
    drain,        \* the drain of the current outer iteration: accumulator and
                  \* registry on entry, ticks run so far
    wasReset,     \* whether the registry's client has called destroyAll
    steps,        \* system calls made by the registry's client
    held,         \* the keys down according to the key events delivered so far
    polled,       \* events the running processInput has taken from the queue
    attempts,     \* per path, the calls of SDL_LoadBMP made for it
    firstRet      \* per path requested, what the first loadTexture returned

vars == << em, textures, input, accumulator, player, tex, i, pc, frames,
           issued, calls, frameLog, drain, wasReset, steps, held, polled,
           attempts, firstRet >>

mainVars == << textures, input, accumulator, player, tex, i, pc, frames,
               frameLog, drain >>

apiVars == << wasReset, steps >>

envVars == << held, polled >>

resVars == << attempts, firstRet >>

\* while (!input.quit)
LoopCond(in) == ~in.quit

\* the drain given up as soon as quit is set
DrainCondUnlessQuit(acc) == FGe(acc, TARGET_DT) /\ ~input.quit

\* while (accumulator >= TARGET_DT)
DrainCond(acc) == FGe(acc, TARGET_DT)

NoDrain == [acc |-> F0, em |-> NewEntityManager, ticks |-> 0]

InitCommon ==
    /\ em = NewEntityManager
    /\ textures = EmptyMap
    /\ input = NewInputState
    /\ accumulator = F0
    /\ player = 0
    /\ tex = 0
    /\ i = 0
    /\ frames = 0
    /\ issued = << >>
    /\ calls = << >>
    /\ frameLog = << >>
    /\ drain = NoDrain
    /\ wasReset = FALSE
    /\ steps = 0
    /\ held = {}
    /\ polled = 0
    /\ attempts = [p \in Paths |-> 0]
    /\ firstRet = EmptyMap

Init == InitCommon /\ pc = "createPlayer"

\* lines 187-190
CreatePlayer ==
    /\ pc = "createPlayer"
    /\ LET c  == create(em)
           e  == c.ret
           t1 == Index(c.em.transforms, e, DefaultTransform)
           t2 == [t1 EXCEPT ![e].pos = Vec2(FromInt(WINDOW_W \div 2),
                                              FromInt(WINDOW_H \div 2))]
           t3 == Index(t2, e, DefaultTransform)
           t4 == [t3 EXCEPT ![e].scale = Vec2(F1, F1)]
       IN  /\ player' = e
           /\ issued' = Append(issued, e)
           /\ em' = [c.em EXCEPT !.transforms = t4,
                                 !.bodies = Put(c.em.bodies, e,
                                                [vel |-> Vec2(F0, F0),
                                                 mass |-> F1])]
    /\ pc' = "loadSprite"
    /\ calls' = << >>
    /\ UNCHANGED << textures, input, accumulator, tex, i, frames, frameLog, drain,
                    apiVars,
                    envVars, resVars >>

\* lines 193-202: loaded tells whether player.bmp loads, fallback whether the
\* placeholder surface and texture can be made when it does not
LoadSprite ==
    /\ pc = "loadSprite"
    /\ \E loaded \in BOOLEAN, fallback \in BOOLEAN :
         LET r == loadTexture(textures, "player.bmp", loaded)
             t == IF r.ret # 0 THEN r.ret
                  ELSE IF fallback THEN TexFallback ELSE 0
         IN  /\ textures' = r.textures
             /\ attempts' = attemptsAfter(attempts, textures, "player.bmp")
             /\ firstRet' = firstRetAfter(firstRet, "player.bmp", r.ret)
             /\ tex' = t
             /\ em' = [em EXCEPT !.sprites =
                          Put(em.sprites, player,
                              [tex |-> t, w |-> SpriteSize, h |-> SpriteSize])]
    /\ i' = 0
    /\ pc' = "statics"
    /\ calls' = << >>
    /\ UNCHANGED << input, accumulator, player, frames, issued, frameLog, drain,
                    apiVars,
                    envVars >>

\* the sprite keyed by the loop counter instead of the entity
StaticTargetByIndex(e, k) == k

\* the key of em.sprites[e] = ... in pass k of the for loop, e being the
\* entity the pass created
StaticTarget(e, k) == e

\* lines 205-210, one pass of the loop body
CreateStatic ==
    /\ pc = "statics"
    /\ i < NumStatics
    /\ LET c  == create(em)
           e  == c.ret
           t1 == Index(c.em.transforms, e, DefaultTransform)
           t2 == [t1 EXCEPT ![e].pos =
                     Vec2(FAdd(FromInt(100), FMul(FromInt(i), FromInt(120))),
                          FAdd(FromInt(150), FMul(FromInt(i % 2), FromInt(80))))]
           t3 == Index(t2, e, DefaultTransform)
           t4 == [t3 EXCEPT ![e].scale = Vec2(StaticScale, StaticScale)]
           s1 == Index(c.em.sprites, player, DefaultSprite)
           s2 == Put(s1, StaticTarget(e, i), s1[player])
       IN  /\ issued' = Append(issued, e)
           /\ em' = [c.em EXCEPT !.transforms = t4, !.sprites = s2]
    /\ i' = i + 1
    /\ calls' = << >>
    /\ UNCHANGED << textures, input, accumulator, player, tex, pc, frames,
                    frameLog, drain, apiVars,
                    envVars, resVars >>

\* lines 212-215, when the for loop is over
EnterLoop ==
    /\ pc = "statics"
    /\ ~(i < NumStatics)
    /\ input' = NewInputState
    /\ accumulator' = F0
    /\ pc' = "top"
    /\ calls' = << >>
    /\ UNCHANGED << em, textures, player, tex, i, frames, issued, frameLog, drain,
                    apiVars,
                    envVars, resVars >>

\* lines 217-221: the loop condition holds; the elapsed time is measured and
\* added to the accumulator
Measure ==
    /\ pc = "top"
    /\ LoopCond(input)
    /\ frames < MaxFrames
    /\ \E elapsed \in ElapsedValues : accumulator' = FAdd(accumulator, elapsed)
    /\ frames' = frames + 1
    /\ frameLog' = << "accumulate" >>
    /\ pc' = "poll"
    /\ calls' = << >>
    /\ UNCHANGED << em, textures, input, player, tex, i, issued, drain, apiVars,
                    envVars, resVars >>

\* line 223
Poll ==
    /\ pc = "poll"
    /\ \E evs \in SeqsUpTo(MainEvents, MaxEvents) :
         /\ input' = processInput(input, evs)
         /\ held' = heldAfterAll(held, evs)
    /\ frameLog' = Append(frameLog, "poll")
    /\ drain' = [acc |-> accumulator, em |-> em, ticks |-> 0]
    /\ pc' = "drain"
    /\ calls' = << >>
    /\ UNCHANGED << em, textures, accumulator, player, tex, i, frames, issued,
                    apiVars, polled, resVars >>

\* lines 225-226: the drain condition holds; the control system runs
Control ==
    /\ pc = "drain"
    /\ DrainCond(accumulator)
    /\ em' = playerControlSystem(player, em, input, PlayerSpeed)
    /\ frameLog' = Append(frameLog, "control")
    /\ pc' = "physics"
    /\ calls' = << >>
    /\ UNCHANGED << textures, input, accumulator, player, tex, i, frames, issued,
                    drain, apiVars,
                    envVars, resVars >>

\* line 227
Physics ==
    /\ pc = "physics"
    /\ em' = physicsSystem(em, TARGET_DT)
    /\ frameLog' = Append(frameLog, "physics")
    /\ pc' = "subtract"
    /\ calls' = << >>
    /\ UNCHANGED << textures, input, accumulator, player, tex, i, frames, issued,
                    drain, apiVars,
                    envVars, resVars >>

\* renderSystem called inside the inner loop, after the subtraction
SubtractThenRender ==
    /\ pc = "subtract"
    /\ accumulator' = FSub(accumulator, TARGET_DT)
    /\ LET r == renderSystem(em)
       IN  em' = r.em /\ calls' = r.calls
    /\ frameLog' = frameLog \o << "subtract", "render" >>
    /\ drain' = [drain EXCEPT !.ticks = @ + 1]
    /\ pc' = "drain"
    /\ UNCHANGED << textures, input, player, tex, i, frames, issued, apiVars,
                    envVars, resVars >>

\* line 228
Subtract ==
    /\ pc = "subtract"
    /\ accumulator' = FSub(accumulator, TARGET_DT)
    /\ frameLog' = Append(frameLog, "subtract")
    /\ drain' = [drain EXCEPT !.ticks = @ + 1]
    /\ pc' = "drain"
    /\ calls' = << >>
    /\ UNCHANGED << em, textures, input, player, tex, i, frames, issued, apiVars,
                    envVars, resVars >>

\* line 231, when the drain condition fails
Render ==
    /\ pc = "drain"
    /\ ~DrainCond(accumulator)
    /\ LET r == renderSystem(em)
       IN  em' = r.em /\ calls' = r.calls
    /\ frameLog' = Append(frameLog, "render")
    /\ pc' = "top"
    /\ UNCHANGED << textures, input, accumulator, player, tex, i, frames, issued,
                    drain, apiVars,
                    envVars, resVars >>

\* line 234, when the loop condition fails: ResourceManager::cleanup
Cleanup ==
    /\ pc = "top"
    /\ ~LoopCond(input)
    /\ textures' = EmptyMap
    /\ pc' = "destroyAll"
    /\ calls' = << >>
    /\ UNCHANGED << em, input, accumulator, player, tex, i, frames, issued,
                    frameLog, drain, apiVars,
                    envVars, resVars >>

\* line 235
DestroyAll ==
    /\ pc = "destroyAll"
    /\ em' = destroyAll(em)
    /\ issued' = << >>
    /\ pc' = "done"
    /\ calls' = << >>
    /\ UNCHANGED << textures, input, accumulator, player, tex, i, frames,
                    frameLog, drain, apiVars,
                    envVars, resVars >>

Next ==
    \/ CreatePlayer
    \/ LoadSprite
    \/ CreateStatic
    \/ EnterLoop
    \/ Measure
    \/ Poll
    \/ Control
    \/ Physics
    \/ Subtract
    \/ Render
    \/ Cleanup
    \/ DestroyAll

Spec == Init /\ [][Next]_vars

----------------------------------------------------------------------------
(* The registry and the systems under an arbitrary client: any interleaving  *)
(* of create, component writes for entities create returned, the three       *)
(* systems, and destroyAll.                                                  *)

\* entities created in one registry lifetime
MaxEntities == 2

\* calls of the control and physics systems
MaxSteps == 1

\* 100.75f and 150.25f
F100_75 == [m |-> 13205504, e |-> -17]

F150_25 == [m |-> 9846784, e |-> -16]

\* the transforms the client writes: off the pixel grid, scaled by 0.8f
TransformValues ==
    {[pos |-> Vec2(F100_75, F150_25), rot |-> F0,
      scale |-> Vec2(StaticScale, StaticScale)]}

\* the sprites the client writes: a null handle, and a texture of 64x64
SpriteValues ==
    {[tex |-> 0, w |-> SpriteSize, h |-> SpriteSize],
     [tex |-> TexLoaded, w |-> SpriteSize, h |-> SpriteSize]}

\* the bodies the client writes: velocity (100, 0)
BodyValues == {[vel |-> Vec2(FromInt(100), F0), mass |-> F1]}

\* the snapshots the client hands to the control system: d held
InputValues ==
    {processInput(NewInputState, << [type |-> "KEYDOWN", sym |-> "d"] >>)}

Live(m) == {m.entities[k] : k \in 1..Len(m.entities)}

InitApi == InitCommon /\ pc = "api"

ApiCreate ==
    /\ pc = "api"
    /\ Len(em.entities) < MaxEntities
    /\ LET c == create(em)
       IN  /\ em' = c.em
           /\ issued' = Append(issued, c.ret)
    /\ calls' = << >>
    /\ UNCHANGED << mainVars, apiVars,
                    envVars, resVars >>

\* em.transforms[e] = t, for an entity create returned
ApiSetTransform ==
    /\ pc = "api"
    /\ \E e \in Live(em), t \in TransformValues :
         /\ em' = [em EXCEPT !.transforms = Put(em.transforms, e, t)]
    /\ calls' = << >>
    /\ UNCHANGED << mainVars, apiVars, issued,
                    envVars, resVars >>

\* em.sprites[e] = s
ApiSetSprite ==
    /\ pc = "api"
    /\ \E e \in Live(em), sp \in SpriteValues :
         /\ em' = [em EXCEPT !.sprites = Put(em.sprites, e, sp)]
    /\ calls' = << >>
    /\ UNCHANGED << mainVars, apiVars, issued,
                    envVars, resVars >>

\* em.bodies[e] = b; like main, the client gives a Rigidbody to one entity
ApiSetBody ==
    /\ pc = "api"
    /\ \E e \in Live(em), b \in BodyValues :
         /\ DOMAIN em.bodies \subseteq {e}
         /\ em' = [em EXCEPT !.bodies = Put(em.bodies, e, b)]
    /\ calls' = << >>
    /\ UNCHANGED << mainVars, apiVars, issued,
                    envVars, resVars >>

\* playerControlSystem(p, em, in, speed), p any Entity value
ApiControl ==
    /\ pc = "api"
    /\ steps < MaxSteps
    /\ \E p \in 1..(MaxEntities + 1), in \in InputValues :
         /\ em' = playerControlSystem(p, em, in, PlayerSpeed)
    /\ steps' = steps + 1
    /\ calls' = << >>
    /\ UNCHANGED << mainVars, wasReset, issued,
                    envVars, resVars >>

ApiPhysics ==
    /\ pc = "api"
    /\ steps < MaxSteps
    /\ em' = physicsSystem(em, TARGET_DT)
    /\ steps' = steps + 1
    /\ calls' = << >>
    /\ UNCHANGED << mainVars, wasReset, issued,
                    envVars, resVars >>

ApiRender ==
    /\ pc = "api"
    /\ LET r == renderSystem(em)
       IN  em' = r.em /\ calls' = r.calls
    /\ UNCHANGED << mainVars, apiVars, issued,
                    envVars, resVars >>

ApiDestroyAll ==
    /\ pc = "api"
    /\ em' = destroyAll(em)
    /\ issued' = << >>
    /\ wasReset' = TRUE
    /\ calls' = << >>
    /\ UNCHANGED << mainVars, steps,
                    envVars, resVars >>

NextApi ==
    \/ ApiCreate
    \/ ApiSetTransform
    \/ ApiSetSprite
    \/ ApiSetBody
    \/ ApiControl
    \/ ApiPhysics
    \/ ApiRender
    \/ ApiDestroyAll

SpecApi == InitApi /\ [][NextApi]_vars

----------------------------------------------------------------------------
(* processInput under an arbitrary stream of events, one pass of its event   *)
(* loop at a time.                                                           *)

\* events one call of processInput finds in the queue
MaxPollEvents == 4

InitInput == InitCommon /\ pc = "inputIdle"

\* lines 96-97: processInput is entered
PollBegin ==
    /\ pc = "inputIdle"
    /\ input' = resetFlags(input)
    /\ polled' = 0
    /\ pc' = "inputLoop"
    /\ UNCHANGED << em, textures, accumulator, player, tex, i, frames, issued,
                    calls, frameLog, drain, apiVars, held, resVars >>

\* lines 98-110: SDL_PollEvent hands out an event
PollEvent ==
    /\ pc = "inputLoop"
    /\ polled < MaxPollEvents
    /\ \E ev \in AllEvents :
         /\ input' = handleEvent(input, ev)
         /\ held' = heldAfter(held, ev)
    /\ polled' = polled + 1
    /\ UNCHANGED << em, textures, accumulator, player, tex, i, pc, frames,
                    issued, calls, frameLog, drain, apiVars, resVars >>

\* lines 111-114: the queue is empty; the axes are computed and
\* processInput returns
PollEnd ==
    /\ pc = "inputLoop"
    /\ input' = axes(input)
    /\ pc' = "inputIdle"
    /\ UNCHANGED << em, textures, accumulator, player, tex, i, frames, issued,
                    calls, frameLog, drain, apiVars, envVars, resVars >>

NextInput ==
    \/ PollBegin
    \/ PollEvent
    \/ PollEnd

SpecInput == InitInput /\ [][NextInput]_vars

----------------------------------------------------------------------------
(* The fixed tick with no key down, from a range of starting velocities.     *)

\* consecutive ticks that are run
MaxDampTicks == 3

\* velocity components the ticks start from: 0; the smallest subnormal,
\* 25 and 26 times it, and their like below zero; the smallest normal
\* float; 100 and -100; 0x1.fffffep+13; -0.75
VelocityValues ==
    {FZero, [m |-> 1, e |-> -149], [m |-> -1, e |-> -149],
     [m |-> 25, e |-> -149], [m |-> 26, e |-> -149],
     [m |-> 8388608, e |-> -149], FromInt(100), FromInt(-100),
     [m |-> 16777215, e |-> -10], [m |-> -12582912, e |-> -24]}

\* the registry of main with the player alone, moving at velocity v
MovingPlayer(v) ==
    LET c == create(NewEntityManager)
    IN  [c.em EXCEPT !.bodies = Put(c.em.bodies, c.ret,
                                    [vel |-> v, mass |-> F1])]

InitDamp ==
    /\ \E vx \in VelocityValues, vy \in VelocityValues :
         em = MovingPlayer(Vec2(vx, vy))
    /\ player = 1
    /\ issued = << 1 >>
    /\ input = NewInputState
    /\ pc = "tick"
    /\ textures = EmptyMap /\ accumulator = F0 /\ tex = 0 /\ i = 0
    /\ frames = 0 /\ calls = << >> /\ frameLog = << >> /\ drain = NoDrain
    /\ wasReset = FALSE /\ steps = 0 /\ held = {} /\ polled = 0
    /\ attempts = [p \in Paths |-> 0] /\ firstRet = EmptyMap

\* lines 226-227 with no key down: the control system, then the physics
DampTick ==
    /\ pc = "tick"
    /\ steps < MaxDampTicks
    /\ em' = physicsSystem(playerControlSystem(player, em, input, PlayerSpeed),
                           TARGET_DT)
    /\ steps' = steps + 1
    /\ calls' = << >>
    /\ UNCHANGED << mainVars, wasReset, issued, envVars, resVars >>

NextDamp == DampTick

SpecDamp == InitDamp /\ [][NextDamp]_vars

----------------------------------------------------------------------------
(* ResourceManager under an arbitrary sequence of loadTexture calls.         *)

\* calls of SDL_LoadBMP for one path
MaxAttempts == 3

InitRes == InitCommon /\ pc = "res"

\* loadTexture(path); ok tells whether the load succeeds if it is attempted
ResLoad ==
    /\ pc = "res"
    /\ \E path \in Paths, ok \in BOOLEAN :
         LET r == loadTexture(textures, path, ok)
         IN  /\ Has(textures, path) \/ attempts[path] < MaxAttempts
             /\ textures' = r.textures
             /\ tex' = r.ret
             /\ attempts' = attemptsAfter(attempts, textures, path)
             /\ firstRet' = firstRetAfter(firstRet, path, r.ret)
    /\ UNCHANGED << em, input, accumulator, player, i, pc, frames, issued,
                    calls, frameLog, drain, apiVars, envVars >>

NextRes == ResLoad

SpecRes == InitRes /\ [][NextRes]_vars

----------------------------------------------------------------------------
(* The tick drain of one outer iteration, entered with any accumulator.      *)

\* ticks of one drain that are followed
MaxDrainTicks == 20

\* the accumulator after line 221: 0, half a step, one step, two steps,
\* the float below five steps, eighteen steps, one second, 2^19 s, the next
\* float above 2^19 s, and 2^20 s
DrainValues ==
    {FZero, [m |-> 8947849, e |-> -30], TARGET_DT, [m |-> 8947849, e |-> -28],
     [m |-> 11184811, e |-> -27], [m |-> 10066330, e |-> -25], F1,
     [m |-> 8388608, e |-> -4], [m |-> 8388609, e |-> -4],
     [m |-> 8388608, e |-> -3]}

\* main after line 223 of an outer iteration, the registry reduced to the
\* player at rest; the poll may have set quit
InitDrain ==
    /\ em = MovingPlayer(Vec2(F0, F0))
    /\ player = 1
    /\ issued = << 1 >>
    /\ accumulator \in DrainValues
    /\ \E q \in BOOLEAN : input = [NewInputState EXCEPT !.quit = q]
    /\ pc = "drain"
    /\ frames = 1
    /\ frameLog = << "accumulate", "poll" >>
    /\ drain = [acc |-> accumulator, em |-> em, ticks |-> 0]
    /\ textures = EmptyMap /\ tex = 0 /\ i = NumStatics /\ calls = << >>
    /\ wasReset = FALSE /\ steps = 0 /\ held = {} /\ polled = 0
    /\ attempts = [p \in Paths |-> 0] /\ firstRet = EmptyMap

\* lines 225-226, as long as the drain is followed
DrainControl == drain.ticks < MaxDrainTicks /\ Control

NextDrain ==
    \/ DrainControl
    \/ Physics
    \/ Subtract
    \/ Render
    \/ Cleanup
    \/ DestroyAll

SpecDrain == InitDrain /\ [][NextDrain]_vars

----------------------------------------------------------------------------
(* properties *)

Range(q) == {q[k] : k \in 1..Len(q)}

Last(q) == q[Len(q)]

\* C1: within one registry lifetime create returns 1, 2, 3, ... in call
\* order, so no identifier is returned twice, and the identifier returned has
\* the default Transform in the transform table right after the call.
C1_CreateIssuesFreshIds ==
    /\ [](/\ \A k \in 1..Len(issued) : issued[k] = k
          /\ \A j, k \in 1..Len(issued) : j # k => issued[j] # issued[k])
    /\ [][Len(issued') = Len(issued) + 1 =>
            /\ Has(em'.transforms, Last(issued'))
            /\ em'.transforms[Last(issued')] = DefaultTransform]_vars

\* a second create of a second registry lifetime has just returned
C1_Witness ==
    /\ wasReset
    /\ Len(issued) = 2
    /\ Len(em.entities) = 2
    /\ em.transforms[2] = DefaultTransform

\* C2: every identifier of the live-entity list has an entry (one: the table
\* is a map) in the transform table, in every reachable state.
C2_LiveEntitiesHaveTransform ==
    \A k \in 1..Len(em.entities) : Has(em.transforms, em.entities[k])

\* entities live after a reset, a system call and a render pass
C2_Witness ==
    /\ wasReset
    /\ steps > 0
    /\ calls # << >>
    /\ Len(em.entities) = MaxEntities
    /\ DOMAIN em.bodies # {}
    /\ DOMAIN em.sprites # {}

\* C3: the keys of the three component tables are identifiers of the
\* live-entity list, and these are the identifiers create returned in the
\* current registry lifetime.
C3_TablesKeyedByLiveEntities ==
    /\ DOMAIN em.transforms \subseteq Live(em)
    /\ DOMAIN em.sprites \subseteq Live(em)
    /\ DOMAIN em.bodies \subseteq Live(em)
    /\ Live(em) = Range(issued)

\* main has set up its six entities and run ticks and a render pass
C3_Witness ==
    /\ pc = "top"
    /\ frames > 0
    /\ drain.ticks > 0
    /\ Len(em.entities) = NumStatics + 1
    /\ DOMAIN em.sprites = Live(em)
    /\ DOMAIN em.bodies = {player}

\* C4: destroyAll leaves the live-entity list and the three tables empty and
\* restarts the allocation: the next create returns 1.
C4_DestroyAllResets ==
    /\ [][issued # << >> /\ issued' = << >> =>
            /\ em'.entities = << >>
            /\ em'.transforms = EmptyMap
            /\ em'.sprites = EmptyMap
            /\ em'.bodies = EmptyMap
            /\ create(em').ret = 1]_vars
    /\ [](issued # << >> => issued[1] = 1)

\* the first create after a reset has returned
C4_Witness ==
    /\ wasReset
    /\ issued = << 1 >>
    /\ em.entities = << 1 >>

\* the steps of one outer iteration, in order: accumulate, poll, then
\* control, physics, subtract for each tick, then render, which ends it
IsFramePrefix(log) ==
    \A k \in 1..Len(log) :
        IF k = 1 THEN log[k] = "accumulate"
        ELSE IF k = 2 THEN log[k] = "poll"
        ELSE IF log[k] = "render" THEN k = Len(log) /\ (k - 3) % 3 = 0
        ELSE log[k] = << "control", "physics", "subtract" >>[((k - 3) % 3) + 1]

Renders(log) == Cardinality({k \in 1..Len(log) : log[k] = "render"})

\* C5: every outer iteration adds the elapsed time to the accumulator, polls
\* the input, drains the ticks (control, physics, subtraction each) and then
\* renders exactly once, never between two ticks of a drain.
C5_OuterIterationOrder ==
    /\ IsFramePrefix(frameLog)
    /\ pc = "poll" => frameLog = << "accumulate" >>
    /\ \/ pc \in {"drain", "physics", "subtract"}
       \/ frames > 0 /\ pc \in {"top", "destroyAll", "done"}
       => Len(frameLog) = 2 + 3 * drain.ticks
                            + (IF pc = "physics" THEN 1 ELSE 0)
                            + (IF pc = "subtract" THEN 2 ELSE 0)
                            + Renders(frameLog)
    /\ frames > 0 /\ pc \in {"top", "destroyAll", "done"} =>
           Renders(frameLog) = 1 /\ Last(frameLog) = "render"
    /\ pc \in {"poll", "drain", "physics", "subtract"} => Renders(frameLog) = 0

\* an outer iteration that drained several ticks has rendered
C5_Witness ==
    /\ pc = "top"
    /\ drain.ticks >= 2
    /\ Last(frameLog) = "render"

\* the value of a float in units of 2^-29 s, rounded down (TARGET_DT is a
\* whole number of these units)
Units(f) ==
    IF f.e >= -29 THEN f.m * Pow2(f.e + 29) ELSE f.m \div Pow2(-29 - f.e)

\* n fixed ticks run one by one: control, then physics
RECURSIVE ticksOf(_, _, _)
ticksOf(m, in, n) ==
    IF n = 0 THEN m
    ELSE ticksOf(physicsSystem(playerControlSystem(player, m, in, PlayerSpeed),
                               TARGET_DT), in, n - 1)

\* the multiples N x TARGET_DT that are looked at
MaxMultiple == 6

\* the drain of the current outer iteration has ended
DrainEnded == pc = "drain" /\ FLt(accumulator, TARGET_DT)

\* C6: a drain entered with accumulator A >= 0 runs exactly
\* floor(A / TARGET_DT) ticks and leaves 0 <= accumulator < TARGET_DT;
\* A = 2 x TARGET_DT gives 2 ticks and accumulator 0; A = N x TARGET_DT
\* leaves the components as N ticks run one by one leave them.
C6_DrainRunsFloorTicks ==
    DrainEnded =>
        /\ drain.ticks = Units(drain.acc) \div Units(TARGET_DT)
        /\ FGe(accumulator, F0)
        /\ drain.acc = FAdd(TARGET_DT, TARGET_DT) =>
               drain.ticks = 2 /\ accumulator = F0
        /\ \A N \in 0..MaxMultiple :
               drain.acc = FMul(FromInt(N), TARGET_DT) =>
                   drain.ticks = N /\ em = ticksOf(drain.em, input, N)

\* C7: the loop is left only at its top, when quit is set; the drain and the
\* render of the iteration whose poll set quit have run to their end by
\* then, and nothing is polled, ticked or rendered afterwards.
C7_QuitExaminedAtTop ==
    /\ [][pc' = "destroyAll" /\ pc # "destroyAll" => pc = "top" /\ input.quit]_vars
    /\ [][pc = "top" /\ input.quit => pc' = "destroyAll"]_vars
    /\ [][(pc \in {"poll", "drain", "physics", "subtract"}) =>
            pc' \in {"drain", "physics", "subtract", "top"}]_vars
    /\ [](pc \in {"destroyAll", "done"} =>
            /\ input.quit
            /\ FLt(accumulator, TARGET_DT)
            /\ Last(frameLog) = "render"
            /\ Len(frameLog) = 3 + 3 * drain.ticks)
    /\ [][(pc \in {"destroyAll", "done"}) =>
            /\ frameLog' = frameLog
            /\ input' = input
            /\ accumulator' = accumulator
            /\ calls' = << >>]_vars

\* the iteration whose poll set quit drained two ticks or more, rendered,
\* and the program has ended
C7_Witness ==
    /\ pc = "done"
    /\ input.quit
    /\ drain.ticks >= 2
    /\ Last(frameLog) = "render"

IsCopy(c) == c.call = "copy"

Copies(e) ==
    Cardinality({k \in 1..Len(calls) : IsCopy(calls[k]) /\ calls[k].e = e})

Drawable(m, e) ==
    Has(m.transforms, e) /\ Has(m.sprites, e) /\ m.sprites[e].tex # 0

\* C8: a render invocation issues exactly one draw call for each live entity
\* that has a Transform and a Sprite with a non-null handle, and none for the
\* others.
C8_OneDrawPerDrawableEntity ==
    calls # << >> =>
        /\ \A e \in Live(em) : Copies(e) = IF Drawable(em, e) THEN 1 ELSE 0
        /\ Cardinality({k \in 1..Len(calls) : IsCopy(calls[k])})
             = Cardinality({e \in Live(em) : Drawable(em, e)})

\* a render pass over an entity with a texture and one with a null handle
C8_Witness ==
    /\ calls # << >>
    /\ \E e \in Live(em) : Drawable(em, e)
    /\ \E e \in Live(em) : Has(em.sprites, e) /\ em.sprites[e].tex = 0

\* C9: a render invocation leaves the registry as it found it: the list, the
\* counter, and the keys and values of the three tables.
C9_RenderWritesNothing ==
    [][calls' # << >> => em' = em]_vars

\* a render pass over an entity without a Sprite and one that is drawn
C9_Witness ==
    /\ calls # << >>
    /\ \E e \in Live(em) : ~Has(em.sprites, e)
    /\ \E e \in Live(em) : Drawable(em, e)

\* floor and ceiling of 2 x f
FloorTwice(f) ==
    IF f.e >= -1 THEN f.m * Pow2(f.e + 1)
    ELSE IF -f.e - 1 > 30 THEN (IF f.m < 0 THEN -1 ELSE 0)
    ELSE f.m \div Pow2(-f.e - 1)

CeilTwice(f) == -FloorTwice(FNeg(f))

\* n is an integer nearest to p - w / 2
NearestToCentred(n, p, w) ==
    2 * n + w - 1 <= FloorTwice(p) /\ CeilTwice(p) <= 2 * n + w + 1

\* C10: the destination rectangle of a drawn entity is sprite size x scale
\* wide and high, and its top-left is position - (w / 2, h / 2) rounded to
\* the nearest pixel, for odd and even sizes; (400, 300), scale (1, 1),
\* 64 x 64 gives {368, 268, 64, 64}.
C10_RectCentredOnPosition ==
    /\ destRect([tex |-> TexLoaded, w |-> 64, h |-> 64],
                [pos |-> Vec2(FromInt(400), FromInt(300)), rot |-> F0,
                 scale |-> Vec2(F1, F1)])
         = [x |-> 368, y |-> 268, w |-> 64, h |-> 64]
    /\ \A k \in 1..Len(calls) :
           IsCopy(calls[k]) =>
               LET c  == calls[k]
                   sp == em.sprites[c.e]
                   tr == em.transforms[c.e]
               IN  /\ c.dst.w = FToInt(FMul(FromInt(sp.w), tr.scale.x))
                   /\ c.dst.h = FToInt(FMul(FromInt(sp.h), tr.scale.y))
                   /\ NearestToCentred(c.dst.x, tr.pos.x, c.dst.w)
                   /\ NearestToCentred(c.dst.y, tr.pos.y, c.dst.h)

\* the value of a float in units of 2^-23, for |f| < 256 on the 2^-23 grid
Units23(f) == IF f.m = 0 THEN 0 ELSE f.m * Pow2(f.e + 23)

\* what one physics tick of step dt makes of registry m, entity by entity
PhysicsEffect(m, m2, dt) ==
    /\ m2.entities = m.entities /\ m2.nextId = m.nextId
    /\ m2.sprites = m.sprites
    /\ DOMAIN m2.transforms = DOMAIN m.transforms
    /\ DOMAIN m2.bodies = DOMAIN m.bodies
    /\ \A e \in DOMAIN m.transforms \cup DOMAIN m.bodies :
         IF e \in Live(m) /\ Has(m.transforms, e) /\ Has(m.bodies, e)
         THEN LET t == m.transforms[e]
                  b == m.bodies[e]
              IN  /\ m2.transforms[e] =
                        [t EXCEPT !.pos = Vec2(FAdd(t.pos.x, FMul(b.vel.x, dt)),
                                               FAdd(t.pos.y, FMul(b.vel.y, dt)))]
                  /\ m2.bodies[e] =
                        [b EXCEPT !.vel = Vec2(FMul(b.vel.x, Damping),
                                               FMul(b.vel.y, Damping))]
                  /\ b.vel = Vec2(FromInt(100), F0) /\ dt = TARGET_DT =>
                        /\ m2.bodies[e].vel = Vec2(FromInt(98), F0)
                        /\ m2.transforms[e].pos.y = t.pos.y
                        /\ Abs(60 * (Units23(m2.transforms[e].pos.x)
                                       - Units23(t.pos.x)) - 100 * 8388608)
                             <= 60 * 64
         ELSE /\ Has(m.transforms, e) => m2.transforms[e] = m.transforms[e]
              /\ Has(m.bodies, e) => m2.bodies[e] = m.bodies[e]

\* C11: one physics tick of step dt adds velocity x dt, the velocity being
\* the one before damping, to the position of every live entity that has a
\* Transform and a Rigidbody, then multiplies its velocity by 0.98f, and
\* leaves every other entity's components alone; velocity (100, 0) at
\* dt = 1/60 moves x by 100/60 (to the last place of the position) and
\* leaves velocity.x = 98.
C11_PhysicsTickEffect ==
    [][ApiPhysics => PhysicsEffect(em, em', TARGET_DT)]_vars

\* a tick has moved an entity of velocity (100, 0) next to one without a
\* Rigidbody
C11_Witness ==
    /\ steps > 0
    /\ \E e \in Live(em) :
         /\ Has(em.bodies, e)
         /\ em.bodies[e].vel = Vec2(FromInt(98), F0)
         /\ em.transforms[e].pos.x # F100_75
         /\ em.transforms[e].pos.x # F0
    /\ \E e \in Live(em) : ~Has(em.bodies, e)

Positions(m) == [e \in DOMAIN m.transforms |-> m.transforms[e].pos]

Velocities(m) == [e \in DOMAIN m.bodies |-> m.bodies[e].vel]

\* main is inside its loop
InLoop == pc \in {"top", "poll", "drain", "physics", "subtract"}

\* the step taken is the call of physicsSystem, of playerControlSystem
IsPhysicsStep == pc = "physics"

IsControlStep == pc = "drain" /\ pc' = "physics"

\* C12 as stated: inside the loop no step but the physics tick changes the
\* position or the velocity of any entity.
C12_PhysicsOnlyWriter ==
    [][InLoop /\ ~IsPhysicsStep =>
          Positions(em') = Positions(em) /\ Velocities(em') = Velocities(em)]_vars

\* C12 amended: inside the loop no step but the physics tick changes a
\* position; a velocity is changed only by the physics tick and by the
\* control system, which changes that of the controlled entity alone; the
\* poll and the render change neither.
C12_PhysicsOnlyWriterOfPosition ==
    /\ [][InLoop /\ ~IsPhysicsStep => Positions(em') = Positions(em)]_vars
    /\ [][InLoop /\ ~IsPhysicsStep /\ ~IsControlStep =>
            Velocities(em') = Velocities(em)]_vars
    /\ [][IsControlStep =>
            \A e \in DOMAIN em.bodies \ {player} :
                Velocities(em')[e] = Velocities(em)[e]]_vars

\* an outer iteration has ended in which the control system accelerated the
\* player and the physics tick moved it
C12_Witness ==
    /\ pc = "top"
    /\ frames > 0
    /\ Last(frameLog) = "render"
    /\ em.bodies[player].vel.x # F0
    /\ em.transforms[player].pos.x # FromInt(WINDOW_W \div 2)

\* the snapshots a poll of one event leaves
ControlInputs == {processInput(NewInputState, << ev >>) : ev \in AllEvents}

\* what playerControlSystem(p, m, in, speed) makes of m, m2 being its result
ControlEffect(p, in, speed, m, m2) ==
    IF Has(m.bodies, p)
    THEN /\ m2.entities = m.entities /\ m2.nextId = m.nextId
         /\ m2.transforms = m.transforms /\ m2.sprites = m.sprites
         /\ DOMAIN m2.bodies = DOMAIN m.bodies
         /\ \A e \in DOMAIN m.bodies \ {p} : m2.bodies[e] = m.bodies[e]
         /\ m2.bodies[p].mass = m.bodies[p].mass
         /\ m2.bodies[p].vel =
                Vec2(FAdd(m.bodies[p].vel.x, FMul(in.axisX, speed)),
                     FAdd(m.bodies[p].vel.y, FMul(in.axisY, speed)))
    ELSE m2 = m

\* C13: the control system adds axis x speed to the velocity the controlled
\* entity has, and writes nothing else; for an entity without a Rigidbody
\* it leaves the registry as it is, creating no entry.
C13_ControlAddsToVelocity ==
    \A p \in 1..(MaxEntities + 1), in \in ControlInputs :
        ControlEffect(p, in, PlayerSpeed, em,
                      playerControlSystem(p, em, in, PlayerSpeed))

\* the control system has added to the velocity (100, 0) of one entity,
\* next to an entity without a Rigidbody
C13_Witness ==
    /\ steps > 0
    /\ \E e \in Live(em) :
         /\ Has(em.bodies, e)
         /\ em.bodies[e].vel = Vec2(FAdd(FromInt(100), PlayerSpeed), F0)
    /\ \E e \in Live(em) : ~Has(em.bodies, e)

\* +1 for the positive flag plus -1 for the negative flag, as an integer
AxisOf(pos, neg) == (IF pos THEN 1 ELSE 0) + (IF neg THEN -1 ELSE 0)

\* processInput has returned
PollDone == pc = "inputIdle"

\* C14: after every poll axisX = (+1 if right) + (-1 if left) and
\* axisY = (+1 if down) + (-1 if up): opposite flags cancel to 0, and each
\* axis is -1, 0 or 1 whatever the flags and the events were.
C14_AxesFromFlags ==
    PollDone =>
        /\ input.axisX = FromInt(AxisOf(input.right, input.left))
        /\ input.axisY = FromInt(AxisOf(input.down, input.up))
        /\ input.left /\ input.right => input.axisX = F0
        /\ input.up /\ input.down => input.axisY = F0
        /\ input.axisX \in {FromInt(-1), F0, F1}
        /\ input.axisY \in {FromInt(-1), F0, F1}

\* a poll has left left and right both set, and down set alone
C14_Witness ==
    /\ PollDone
    /\ polled > 0
    /\ input.left /\ input.right /\ input.down /\ ~input.up
    /\ input.axisX = F0
    /\ input.axisY = F1

\* the flag a direction key sets
FlagOf(in, key) ==
    CASE key = "a" -> in.left
      [] key = "d" -> in.right
      [] key = "w" -> in.up
      [] key = "s" -> in.down

\* main has polled in the current outer iteration
Polled == pc \in {"drain", "physics", "subtract"}

\* C15: the snapshot a poll leaves reports every direction key that was
\* pressed in this or an earlier outer iteration and not released since,
\* also when the poll received no event for it: its flag is set and its
\* +1 or -1 is in the axis the ticks of the iteration use.
C15_HeldKeyReportedByEveryPoll ==
    Polled =>
        /\ \A key \in held : FlagOf(input, key)
        /\ input.axisX = FromInt(AxisOf("d" \in held, "a" \in held))
        /\ input.axisY = FromInt(AxisOf("s" \in held, "w" \in held))

FAbs(a) == [m |-> Abs(a.m), e |-> a.e]

\* -1, 0 or 1
FSign(a) == IF a.m = 0 THEN 0 ELSE Sgn(a.m)

\* the smallest normal float, 2^-126
FLT_MIN == [m |-> 8388608, e |-> -149]

\* velocity w is slower than velocity v: no component is larger in
\* magnitude and one is smaller
Slower(w, v) ==
    /\ ~FLt(FAbs(v.x), FAbs(w.x))
    /\ ~FLt(FAbs(v.y), FAbs(w.y))
    /\ FLt(FAbs(w.x), FAbs(v.x)) \/ FLt(FAbs(w.y), FAbs(v.y))

SameSigns(w, v) == FSign(w.x) = FSign(v.x) /\ FSign(w.y) = FSign(v.y)

\* C16 as stated: with no key down every fixed tick makes every entity
\* with a Rigidbody strictly slower, whatever its velocity, and leaves the
\* sign of each velocity component as it was.
C16_DampingStrictlySlower ==
    [][DampTick =>
          \A e \in DOMAIN em.bodies :
              /\ Slower(em'.bodies[e].vel, em.bodies[e].vel)
              /\ SameSigns(em'.bodies[e].vel, em.bodies[e].vel)]_vars

\* what a tick makes of one velocity component c, d being the result
DampedComponent(d, c) ==
    /\ FSign(d) = FSign(c)
    /\ ~FLt(FAbs(c), FAbs(d))
    /\ FGe(FAbs(c), FLT_MIN) => FLt(FAbs(d), FAbs(c))

\* C16 amended: with no key down a fixed tick never increases the
\* magnitude of a velocity component and never changes its sign, a zero
\* component staying zero; it strictly decreases the magnitude of every
\* component that is at least 2^-126 (a normal float) in magnitude.
C16_DampingNeverFaster ==
    [][DampTick =>
          \A e \in DOMAIN em.bodies :
              /\ DampedComponent(em'.bodies[e].vel.x, em.bodies[e].vel.x)
              /\ DampedComponent(em'.bodies[e].vel.y, em.bodies[e].vel.y)]_vars

\* several ticks have damped a velocity that started at (100, -100)
C16_Witness ==
    /\ pc = "tick"
    /\ steps = MaxDampTicks
    /\ FLt(em.bodies[player].vel.x, FromInt(98))
    /\ FLt(F0, em.bodies[player].vel.x)
    /\ FLt(FromInt(-98), em.bodies[player].vel.y)
    /\ FLt(em.bodies[player].vel.y, F0)

\* the length of the event sequences a poll is replayed with
MaxReplay == 2

\* the directional part of a snapshot: the four flags and the two axes
Directional(in) ==
    [left |-> in.left, right |-> in.right, up |-> in.up, down |-> in.down,
     axisX |-> in.axisX, axisY |-> in.axisY]

\* C17: the flags and axes a poll leaves depend on the events delivered
\* during that poll alone: polling from the snapshot a previous poll left
\* gives the same flags and axes as polling from a fresh snapshot.
C17_PollHasNoMemory ==
    PollDone =>
        \A evs \in SeqsUpTo(AllEvents, MaxReplay) :
            Directional(processInput(input, evs))
                = Directional(processInput(NewInputState, evs))

\* a poll has returned without the flag of a key that an earlier poll saw
\* pressed, from a snapshot that has two other flags set
C17_Witness ==
    /\ PollDone
    /\ "d" \in held /\ ~input.right
    /\ input.left /\ input.up
    /\ input.axisX = FromInt(-1)

\* C18: loadTexture attempts the load of a path at most once, whether the
\* attempt succeeded or failed, and a repeated request returns what the
\* first request for that path returned: every path requested is in the
\* cache, with the result of its first request.
C18_SingleLoadAttemptPerPath ==
    /\ \A path \in Paths : attempts[path] <= 1
    /\ \A path \in DOMAIN firstRet :
           /\ Has(textures, path)
           /\ loadTexture(textures, path, TRUE).ret = firstRet[path]

\* the place of entity e in the live-entity list
PlaceOf(m, e) == CHOOSE k \in 1..Len(m.entities) : m.entities[k] = e

Presents == {k \in 1..Len(calls) : calls[k].call = "present"}

\* C19: the draw calls of a render invocation come in the order of the
\* live-entity list, which is the order of creation, and the frame is
\* presented once, after the last draw call.
C19_DrawsInCreationOrder ==
    calls # << >> =>
        /\ \A j, k \in 1..Len(calls) :
               j < k /\ IsCopy(calls[j]) /\ IsCopy(calls[k]) =>
                   /\ PlaceOf(em, calls[j].e) < PlaceOf(em, calls[k].e)
                   /\ calls[j].e < calls[k].e
        /\ Presents = {Len(calls)}
        /\ calls[1].call = "clear"
        /\ \A k \in 2..(Len(calls) - 1) : IsCopy(calls[k])

\* a render pass that drew two entities
C19_Witness ==
    /\ Len(calls) >= 4
    /\ IsCopy(calls[2]) /\ IsCopy(calls[3])
    /\ calls[2].e # calls[3].e
    /\ Last(calls).call = "present"

\* C20: a drain ends after finitely many ticks because every tick leaves
\* the accumulator strictly smaller than it found it, so that the render of
\* the iteration, and after a quit the end of the loop, is reached.
C20_EveryTickLowersAccumulator ==
    [][pc = "subtract" => FLt(accumulator', accumulator)]_vars

=============================================================================
